---- MODULE Spec2Model ----
(***************************************************************************)
(* Console capture / detect engine of tcfl/target_ext_console.py:          *)
(* expect_text_on_console_c (poll, detect, on_timeout) and                 *)
(* extension (_read, send_expect_sync) over one poll context, that is one  *)
(* (target, console) pair with its buffers_poll dictionary and its capture *)
(* file.  The remote console (ttbd server) is the environment.             *)
(***************************************************************************)
EXTENDS Integers, Sequences, FiniteSets, TLC

\* ------------------------------------------------------------------ bounds
\* longest remote stream of one generation, in bytes
MaxStream == 5
\* highest stream generation the remote reaches (it starts at 1)
MaxGen == 2
\* longest text pattern an expectation is built with
MaxPat == 2
\* largest previous_max (look-back window) an expectation is built with
MaxLookback == 2
\* most consecutive read timeouts the transport raises inside one poll
MaxTimeouts == 4
\* largest integer report policy an expectation is built with
MaxReport == 1
\* longest capture file followed (a poll that would exceed it is not taken)
MaxCapture == 4
\* the same two bounds in the specifications that follow the detect cursors
MaxStreamDetect == 3
MaxCaptureDetect == 4
\* the continuous reader: longest stream, longest output followed, largest
\* backoff_wait_max (in units of BackoffUnit)
MaxStreamReader == 2
MaxSink == 3
MaxBackoff == 5
\* longest stream where one thread makes the calls one after the other, and
\* where two threads make them at the same time
MaxStreamInit == 3
MaxStreamThreads == 1
\* bytes a generation of the stream holds, and bytes the capture file holds,
\* where polls break off in the middle of a response
MaxStreamFlush == 3
MaxCaptureFlush == 5
\* bytes the capture file holds where reads are as long as they get
MaxCaptureLong == 6
\* most characters one read of the keyboard gives
MaxKeys == 2

\* --------------------------------------------------------------- constants
\* Python's None, for an absent dictionary key or a missing value
None == -1
\* expect_text_on_console_c.max_size (65536 in the source), scaled down
\* together with chunk_size so that one response can exceed it
max_size == 3
\* chunk_size of extension._read (1024 in the source), scaled down
chunk_size == 2
\* _console_reader_c.backoff_wait starts at 0.1 s; the model counts the
\* backoff in units of 0.05 s, so that a ceiling below 0.1 s can be given
backoff_wait_initial == 2
\* server_connection_errors_max given to _console_reader_c (10 in the
\* source), scaled down
server_connection_errors_max == 3

\* the bytes a console can carry
Bytes == {"a", "b"}
\* What the target prints: the byte at a position (from 1) of the stream of a
\* generation.  Every generation prints its own text: "abaab...", "baaba...",
\* "aabaa...", so that a text occurs more than once in a stream and at
\* different places in different generations.
ConsoleByte(generation, position) ==
    IF (generation + position) % 3 = 0 THEN "b" ELSE "a"
\* the console the expectations of this poll context are attached to
Console == "ttyS0"
\* the detect_context argument: "" stands for the default
DetectContextArgs == {"", "panic"}

Min2(x, y) == IF x < y THEN x ELSE y
Max2(x, y) == IF x > y THEN x ELSE y
SetMin(S) == CHOOSE x \in S : \A y \in S : x <= y

RECURSIVE SeqsUpTo(_)
SeqsUpTo(n) ==
    IF n = 0 THEN {<<>>}
    ELSE LET shorter == SeqsUpTo(n - 1)
         IN  shorter \cup {Append(s, b) : s \in {t \in shorter : Len(t) = n - 1}, b \in Bytes}

\* the text patterns (text_or_regex given as str or bytes, the empty text too)
Patterns == SeqsUpTo(MaxPat)
\* the report policies: None (everything), 0 (nothing), a positive integer
Reports == {None} \cup (0..MaxReport)

VARIABLES
    srv_gen,        \* remote: generation of the console's stream
    srv_data,       \* remote: bytes of the stream of the current generation
    buffers_poll,   \* the poll context's dictionary (testcase poll state buffers)
    capture_file,   \* contents of the local capture file
    last,           \* the call the latest step made on the poll context and what
                    \* it returned ("none" after a step of the target)
    hist,           \* history: the read_offset and the remote generation at
                    \* initialization, and the length the capture file had when
                    \* a poll last saw the stream restarted
    reader,         \* the _console_reader_c of the continuous reader and what
                    \* it has written to its output
    tty,            \* the interactive console session: where it is, the
                    \* flags of the terminal, what the session keeps
    srv_enabled,    \* remote: the console is enabled
    pc,             \* per thread: the call it is in and where in it
    locks,          \* owner (0: free) of testcase.lock and of the lock of the
                    \* poll state of each poll context key
    testcase_buffers,   \* testcase.buffers[context] of the console's key, the
                    \* dictionary _poll_context_init_maybe works on
    other_buffers,  \* the buffers of the poll state of the other key
    keylog,         \* the default console of the targets and the latest two
                    \* requests for a poll context key and a capture file name
    inits           \* history: how often the capture of the console's key
                    \* was initialized

reader_vars == <<reader, tty>>

thread_vars == <<srv_enabled, pc, locks, testcase_buffers, other_buffers, inits,
                 keylog>>

vars == <<srv_gen, srv_data, buffers_poll, capture_file, last, hist, reader_vars,
          thread_vars>>

\* ------------------------------------------------------- detect contexts
\* if no detect context is given, it defaults to the console's name
DetectContext(detect_context) ==
    IF detect_context = "" THEN Console ELSE detect_context

DetectContexts == {DetectContext(d) : d \in DetectContextArgs}

\* buffers_poll.get(detect_context + 'search_offset', 0)
GetSearchOffset(bp, ctx) ==
    IF bp.search_offset[ctx] = None THEN 0 ELSE bp.search_offset[ctx]

\* -------------------------------------------------------------- transport
\* The server's answer to GET console/read at an offset: the stream's
\* generation, the offset the data starts at (an offset past the end is
\* moved to the end) and the stream's bytes from there on.
TransportRead(offset) ==
    LET offset_s == Min2(offset, Len(srv_data))
    IN  [generation |-> srv_gen,
         offset_s |-> offset_s,
         body |-> SubSeq(srv_data, offset_s + 1, Len(srv_data))]

\* GET console/size: None for a console that is disabled
TransportSize == IF srv_enabled THEN Len(srv_data) ELSE None

\* ------------------------------------------------------------------ _read
\* a chunk loop that writes all it is given
ReadLimitReached_Never(total) == FALSE

\* if max_size > 0 and total >= max_size: break
ReadLimitReached(total) == max_size > 0 /\ total >= max_size

\* the chunk loop: write chunk after chunk, stop once total >= max_size
RECURSIVE IterContent(_, _)
IterContent(body, total) ==
    IF body = <<>> THEN total
    ELSE LET chunk_len == Min2(chunk_size, Len(body))
             total2 == total + chunk_len
         IN  IF ReadLimitReached(total2)
             THEN total2
             ELSE IterContent(SubSeq(body, chunk_len + 1, Len(body)), total2)

\* a new_offset that leaves out the offset the data starts at
NewOffset_NoBase(offset_s, content_length) == content_length

\* new_offset = int(offset_s) + int(Content-Length)
NewOffset(offset_s, content_length) == offset_s + content_length

\* extension._read with a file to write to: what it appends to the file
\* and the (generation, new_offset, total) it returns
_read(offset) ==
    LET r == TransportRead(offset)
        total == IterContent(r.body, 0)
    IN  [offset |-> offset,
         generation |-> r.generation,
         new_offset |-> NewOffset(r.offset_s, Len(r.body)),
         total_bytes |-> total,
         written |-> SubSeq(r.body, 1, total)]

\* what of a read the history variable keeps
ReadInfo(r) ==
    [offset |-> r.offset, generation |-> r.generation,
     new_offset |-> r.new_offset, total_bytes |-> r.total_bytes]

\* ------------------------------------------------------ _poll_context_init
\* an initial offset that is not kept from going below 0
InitialOffset_NoFloor(size, lookback_max) ==
    (IF size = None THEN 0 ELSE size) - lookback_max

\* read_offset = target.console.size(console)
\* if read_offset == None: read_offset = 0
\* read_offset -= lookback_max
\* if read_offset < 0: read_offset = 0
InitialOffset(size, lookback_max) ==
    LET read_offset == (IF size = None THEN 0 ELSE size) - lookback_max
    IN  IF read_offset < 0 THEN 0 ELSE read_offset

_poll_context_init(bp, lookback_max) ==
    [bp EXCEPT !.read_offset = InitialOffset(TransportSize, lookback_max),
               !.of = TRUE, !.of_buffered = <<>>]

\* ------------------------------------------------------------------ _poll
\* a retry loop that gives up one attempt early
RetryAllowed_Early(retry_count) == retry_count < 2

\* a retry loop that makes one attempt too many
RetryAllowed_Late(retry_count) == retry_count <= 3

\* while retry_count < 3
RetryAllowed(retry_count) == retry_count < 3

\* The retry loop around read_full: `timeouts` is the number of consecutive
\* attempts on which the transport raises ReadTimeout.
RECURSIVE ReadLoop(_, _)
ReadLoop(retry_count, timeouts) ==
    IF RetryAllowed(retry_count)
    THEN IF timeouts > 0
         THEN ReadLoop(retry_count + 1, timeouts - 1)
         ELSE [raised |-> FALSE, attempts |-> retry_count + 2]
    ELSE [raised |-> TRUE, attempts |-> retry_count + 1]

\* except requests.exceptions.HTTPError: raise tc.blocked_e; anything else
\* propagates as it is
PollExcept(e) == IF e = "HTTPError" THEN "blocked_e" ELSE e

\* a poll that never notices a restart
Restarted_Never(generation_prev, generation) == FALSE

\* a poll that takes any other generation for a restart
Restarted_Changed(generation_prev, generation) == generation_prev # generation

\* generation_prev < generation: the console was restarted
Restarted(generation_prev, generation) == generation_prev < generation

\* the offset of the read issued after a restart
RestartOffset == 0

\* a poll that reads from the start every time
ReadOffsetOf_Zero(bp) == 0

\* read_offset = buffers_poll.get('read_offset', 0)
ReadOffsetOf(bp) == IF bp.read_offset = None THEN 0 ELSE bp.read_offset

\* the errors that break the response off while its body is streamed
\* (r.iter_content raises), after chunks were written to the capture handle
BodyErrors == {"ChunkedEncodingError"}

\* a body can break off after its first chunk when it has more chunks
BodyBreaks(offset) == Len(TransportRead(offset).body) > chunk_size

\* what _read has written to the handle when the body breaks off after its
\* first chunk: fd.write(chunk) was done, fd.flush() is not reached
PartialWrite(offset) ==
    LET body == TransportRead(offset).body
    IN  SubSeq(body, 1, Min2(chunk_size, Len(body)))

\* a generation that is stored as soon as the first read has returned it
GenerationBeforeReread_New(generation_prev, generation) == generation

\* the generation stored while the re-read from 0 is made: on a restart
\* buffers_poll['generation'] is assigned after the re-read has returned
GenerationBeforeReread(generation_prev, generation) == generation_prev

\* `file` is what the capture file holds, bp.of_buffered what was written to
\* the handle and not flushed; of.flush() comes before the retry loop.
_poll(bp, file, timeouts, err, reread_err) ==
    LET read_offset == ReadOffsetOf(bp)
        loop == ReadLoop(-1, timeouts)
        bp_flushed == [bp EXCEPT !.of_buffered = <<>>]
        file_flushed == file \o bp.of_buffered
        failed(e, f, buffered, reads) ==
            [bp |-> [bp_flushed EXCEPT
                       !.of_buffered = buffered,
                       !.generation = IF reads = <<>> THEN @
                                      ELSE GenerationBeforeReread(@, reads[1].generation)],
             file |-> f, raised |-> PollExcept(e),
             attempts |-> loop.attempts, reads |-> reads, restarted |-> FALSE]
        done(generation, new_offset, f, reads, restarted) ==
            [bp |-> [bp_flushed EXCEPT !.generation = generation,
                                       !.read_offset = new_offset],
             file |-> f, raised |-> "none",
             attempts |-> loop.attempts, reads |-> reads, restarted |-> restarted]
    IN  IF loop.raised THEN failed("ReadTimeout", file_flushed, <<>>, <<>>)
        ELSE IF err \in BodyErrors
        THEN failed(err, file_flushed, PartialWrite(read_offset), <<>>)
        ELSE IF err # "none" THEN failed(err, file_flushed, <<>>, <<>>)
        ELSE
          LET r1 == _read(read_offset)
              file1 == file_flushed \o r1.written
              generation_prev == bp.generation
          IN  IF generation_prev = None
              THEN done(r1.generation, r1.new_offset, file1, <<ReadInfo(r1)>>, FALSE)
              ELSE IF Restarted(generation_prev, r1.generation)
              THEN IF reread_err \in BodyErrors
                   THEN failed(reread_err, file1, PartialWrite(RestartOffset),
                               <<ReadInfo(r1)>>)
                   ELSE IF reread_err # "none"
                   THEN failed(reread_err, file1, <<>>, <<ReadInfo(r1)>>)
                   ELSE LET r2 == _read(RestartOffset)
                        IN  done(r2.generation, r2.new_offset, file1 \o r2.written,
                                 <<ReadInfo(r1), ReadInfo(r2)>>, TRUE)
              ELSE done(generation_prev, r1.new_offset, file1, <<ReadInfo(r1)>>, FALSE)

\* history: a capture that was just initialized has nothing synced
HistAtInit(h, read_offset, generation) ==
    [h EXCEPT !.init_offset = read_offset, !.init_gen = generation,
              !.synced = 0]

\* history after a poll: how much of the capture file was synced (os.fsync
\* is reached by a poll that raises nothing)
HistAfterPoll(h, p) ==
    [h EXCEPT !.synced = IF p.raised = "none" THEN Len(p.file) ELSE @]

\* ----------------------------------------------------------------- detect
\* what a search that finds nothing returns
NotFound == [found |-> FALSE, start |-> None, end |-> None]

\* self.regex.search(data) for a text pattern (re.escape makes it literal):
\* the leftmost occurrence, as positions relative to data's start
regex_search(pattern, data) ==
    LET starts == {i \in 0..(Len(data) - Len(pattern)) :
                      SubSeq(data, i + 1, i + Len(pattern)) = pattern}
    IN  IF starts = {} THEN NotFound
        ELSE [found |-> TRUE, start |-> SetMin(starts),
              end |-> SetMin(starts) + Len(pattern)]

\* a search over the whole mapping
SliceFrom_Whole(file, search_offset) == file

\* mapping[search_offset:]
SliceFrom(file, search_offset) == SubSeq(file, search_offset + 1, Len(file))

\* a cursor that forgets where the search started
SearchOffsetAfterMatch_Relative(search_offset, match_end) == match_end

\* buffers_poll[detect_context + 'search_offset'] = search_offset + match.end()
SearchOffsetAfterMatch(search_offset, match_end) == search_offset + match_end

\* a match stored under keys that do not name the detect context
StoreMatch_Shared(bp, ctx, search_offset, match_end) ==
    [bp EXCEPT !.search_offset_prev = [c \in DOMAIN @ |-> search_offset],
               !.search_offset = [c \in DOMAIN @ |->
                                    SearchOffsetAfterMatch(search_offset, match_end)]]

\* a match stored with the two keys taken for each other
StoreMatch_Swapped(bp, ctx, search_offset, match_end) ==
    [bp EXCEPT !.search_offset_prev[ctx] =
                   SearchOffsetAfterMatch(search_offset, match_end),
               !.search_offset[ctx] = search_offset]

\* the two keys a match stores, both named after the detect context:
\*   buffers_poll[detect_context + 'search_offset_prev'] = search_offset
\*   buffers_poll[detect_context + 'search_offset'] = search_offset + match.end()
StoreMatch(bp, ctx, search_offset, match_end) ==
    [bp EXCEPT !.search_offset_prev[ctx] = search_offset,
               !.search_offset[ctx] = SearchOffsetAfterMatch(search_offset, match_end)]

\* the search_offset the report policy leaves detect with:
\*   _search_offset = search_offset + match.end() - self.report
\*   search_offset = max(search_offset, _search_offset)
ReportSearchOffset(search_offset, match_end, report) ==
    IF report = None \/ report = 0 THEN search_offset
    ELSE Max2(search_offset, search_offset + match_end - report)

\* generator_factory(console, search_offset, search_offset + match.end()),
\* or no output at all when the report policy is 0
ConsoleOutput(search_offset, match_end, report) ==
    IF report = 0 THEN <<>>
    ELSE <<search_offset, search_offset + match_end>>

\* the match_data dictionary detect returns
MatchData(search_offset, match, report) ==
    [matched |-> TRUE,
     output |-> ConsoleOutput(search_offset, match.end, report),
     offset |-> search_offset,
     offset_match_start |-> search_offset + match.start,
     offset_match_end |-> search_offset + match.end]

NoMatch == [matched |-> FALSE]

\* a detect that maps the capture file without looking at its size
NothingToRead_NoSizeCheck(bp, file) == ~bp.of

\* detect returns None at once when there is no capture file yet
\* (of == None) or when the file is empty (st_size == 0)
NothingToRead(bp, file) == ~bp.of \/ Len(file) = 0

detect(bp, file, detect_context, pattern, report) ==
    IF NothingToRead(bp, file)
    THEN [bp |-> bp, match |-> NotFound, ret |-> NoMatch]
    ELSE
      LET ctx == DetectContext(detect_context)
          bp1 == IF bp.search_offset[ctx] = None
                 THEN [bp EXCEPT !.search_offset[ctx] = 0] ELSE bp
          search_offset == bp1.search_offset[ctx]
          match == regex_search(pattern, SliceFrom(file, search_offset))
      IN  IF match.found
          THEN [bp |-> StoreMatch(bp1, ctx, search_offset, match.end),
                match |-> match,
                ret |-> MatchData(
                          ReportSearchOffset(search_offset, match.end, report),
                          match, report)]
          ELSE [bp |-> bp1, match |-> match, ret |-> NoMatch]

\* ------------------------------------------------------- capture_iterator
\* the byte that ends a line of the capture file
Newline == "\n"

\* the offset just past the line that starts at offset (file iteration: up
\* to and with the next newline, or to the end of the file)
RECURSIVE LineEnd(_, _)
LineEnd(file, offset) ==
    IF offset >= Len(file) THEN Len(file)
    ELSE IF file[offset + 1] = Newline THEN offset + 1
    ELSE LineEnd(file, offset + 1)

\* the lines capture_iterator yields after f.seek(offset): line after line
\* until the end of the file or, with offset_to > 0, until a line ends at
\* or past offset_to; a last line without newline gets one added
RECURSIVE IterLines(_, _, _)
IterLines(file, offset, offset_to) ==
    IF offset >= Len(file)
    THEN [offset_end |-> offset, newline_added |-> FALSE]
    ELSE LET next == LineEnd(file, offset)
         IN  IF offset_to > 0 /\ next >= offset_to
             THEN [offset_end |-> next, newline_added |-> file[next] # Newline]
             ELSE IterLines(file, next, offset_to)

\* extension.capture_iterator(console, offset_from, offset_to) over the
\* capture file: the bytes [offset_from, offset_end) of the file it yields
capture_iterator(file, offset_from, offset_to) ==
    LET it == IterLines(file, offset_from, offset_to)
    IN  [offset_from |-> offset_from,
         offset_end |-> Max2(offset_from, it.offset_end),
         newline_added |-> it.newline_added]

\* ------------------------------------------------------------- on_timeout
\* the raise_on_timeout an expectation is built with: "" stands for the
\* argument left out, whose default is tc.failed_e
RaiseOnTimeoutArgs == {"", "blocked_e"}

RaiseOnTimeout(raise_on_timeout) ==
    IF raise_on_timeout = "" THEN "failed_e" ELSE raise_on_timeout

\* a search_offset_prev read without its default
GetSearchOffsetPrev_NoDefault(bp, ctx) == bp.search_offset_prev[ctx]

\* buffers_poll.get(detect_context + 'search_offset_prev', 0)
GetSearchOffsetPrev(bp, ctx) ==
    IF bp.search_offset_prev[ctx] = None THEN 0 ELSE bp.search_offset_prev[ctx]

\* the data of the exception on_timeout raises
on_timeout(bp, detect_context) ==
    LET ctx == DetectContext(detect_context)
        search_offset_prev == GetSearchOffsetPrev(bp, ctx)
        search_offset == GetSearchOffset(bp, ctx)
    IN  [offset |-> search_offset, offset_prev |-> search_offset_prev,
         output |-> <<search_offset_prev, search_offset>>]

\* ------------------------------------------------------- send_expect_sync
\* a sync that starts the search over
SyncOffset_Zero(bp, file) == 0

\* a sync to where the stream was read to and not to the size of the file
SyncOffset_ReadOffset(bp, file) == IF bp.of THEN bp.read_offset ELSE 0

\* the size of the capture file, 0 when there is none yet
SyncOffset(bp, file) == IF bp.of THEN Len(file) ELSE 0

send_expect_sync(bp, file, detect_context) ==
    LET ctx == DetectContext(detect_context)
        search_offset == SyncOffset(bp, file)
    IN  [bp EXCEPT !.search_offset[ctx] = search_offset]

\* ------------------------------------------------------ _console_reader_c
\* extension._newline_convert(data, None): every "\r+\n", "\r" or "\n" of
\* the data becomes one "\n"
RECURSIVE _newline_convert(_)
_newline_convert(data) ==
    IF data = <<>> THEN <<>>
    ELSE IF Head(data) = "\r"
    THEN LET rest == Tail(data)
         IN  IF rest # <<>> /\ Head(rest) = "\r" THEN _newline_convert(rest)
             ELSE IF rest # <<>> /\ Head(rest) = Newline
             THEN <<Newline>> \o _newline_convert(Tail(rest))
             ELSE <<Newline>> \o _newline_convert(rest)
    ELSE <<Head(data)>> \o _newline_convert(Tail(data))

\* extension._read without a file: all of the response's text, newlines
\* converted, and the (generation, new_offset) of the response
ReadText(offset) ==
    LET r == TransportRead(offset)
    IN  [generation |-> r.generation,
         new_offset |-> NewOffset(r.offset_s, Len(r.body)),
         data |-> _newline_convert(r.body)]

\* _console_reader_c.__init__
ReaderInit(offset, backoff_wait_max) ==
    [started |-> TRUE, alive |-> TRUE, offset |-> offset,
     server_connection_errors |-> 0,
     backoff_wait |-> backoff_wait_initial,
     backoff_wait_max |-> backoff_wait_max,
     generation_prev |-> None,
     sink |-> <<>>,
     \* history: the length of the output when a restart was last seen
     restart_len |-> 0]

\* a backoff that is left to grow
BackoffCap_None(backoff_wait, backoff_wait_max) == backoff_wait

\* if self.backoff_wait >= self.backoff_wait_max:
\*     self.backoff_wait = self.backoff_wait_max
BackoffCap(backoff_wait, backoff_wait_max) ==
    IF backoff_wait >= backoff_wait_max THEN backoff_wait_max ELSE backoff_wait

\* a backoff that forgets to start over when data arrives
BackoffAfterRead_Grow(backoff_wait, data_len) == backoff_wait * 2

\* if data_len == 0: self.backoff_wait *= 2
\* else:             self.backoff_wait = 0.1
BackoffAfterRead(backoff_wait, data_len) ==
    IF data_len = 0 THEN backoff_wait * 2 ELSE backoff_wait_initial

\* a count of failures that a read that returns leaves as it is
ErrorsAfterRead_Keep(errors) == errors

\* if self.server_connection_errors > 0:
\*     self.server_connection_errors = 0    # successful, restart the count
ErrorsAfterRead(errors) == IF errors > 0 THEN 0 ELSE errors

\* _console_reader_c.read when read_full returns
ReaderReadOk(rd) ==
    LET r == ReadText(rd.offset)
        restarted == rd.generation_prev # None /\ rd.generation_prev # r.generation
        offset == IF restarted THEN Len(r.data) ELSE r.new_offset
        data_len == Len(r.data)
        slept == BackoffCap(BackoffAfterRead(rd.backoff_wait, data_len),
                            rd.backoff_wait_max)
        recovered == rd.server_connection_errors > 0
    IN  [rd EXCEPT !.offset = offset,
                   !.generation_prev = r.generation,
                   !.sink = @ \o r.data,
                   !.restart_len = IF restarted THEN Len(rd.sink) ELSE @,
                   !.server_connection_errors = ErrorsAfterRead(@),
                   !.backoff_wait = IF recovered THEN backoff_wait_initial
                                    ELSE slept]

\* a budget that allows one more failure
BudgetExhausted_Exceeds(errors, errors_max) == errors > errors_max

\* if self.server_connection_errors >= self.server_connection_errors_max
BudgetExhausted(errors, errors_max) == errors >= errors_max

\* _console_reader_c.read when read_full raises ConnectionError
ReaderReadConnectionError(rd) ==
    LET errors == rd.server_connection_errors + 1
    IN  IF BudgetExhausted(errors, server_connection_errors_max)
        THEN [rd EXCEPT !.server_connection_errors = errors, !.alive = FALSE]
        ELSE [rd EXCEPT !.server_connection_errors = errors,
                        !.backoff_wait = BackoffCap(rd.backoff_wait * 2,
                                                    rd.backoff_wait_max)]

\* the errors the transport raises besides a read timeout
HardErrors == {"HTTPError", "ConnectionError"}

\* --------------------------------------------------- interactive console
\* no interactive session: the terminal has the flags it was found with
NoSession ==
    [session |-> "off", flags |-> "old", flags_set |-> FALSE,
     one_escape |-> FALSE, cause |-> "none",
     \* history: the character the keyboard gave last
     typed |-> "none"]

\* nl, _flags_old = term_flags_get(); _flags_set = sys.stdin.isatty();
\* if _flags_set: term_raw_set()
SessionInit(isatty) ==
    [session |-> "loop", flags |-> IF isatty THEN "raw" ELSE "old",
     flags_set |-> isatty, one_escape |-> FALSE, cause |-> "none",
     typed |-> "none"]

\* the escape character, '\x1b'
Escape == "ESC"

\* an escape that is forgotten when the read it came in is over
PendingEscape_PerRead(one_escape) == FALSE

\* one_escape is set before the loop and lives across the reads
PendingEscape(one_escape) == one_escape

\* for char in chars: the second escape in a row raises _done_c, an escape
\* sets one_escape and any other character clears it
RECURSIVE KeyLoop(_, _)
KeyLoop(chars, one_escape) ==
    IF chars = <<>> THEN [done |-> FALSE, one_escape |-> one_escape]
    ELSE IF Head(chars) = Escape
    THEN IF one_escape THEN [done |-> TRUE, one_escape |-> one_escape]
         ELSE KeyLoop(Tail(chars), TRUE)
    ELSE KeyLoop(Tail(chars), FALSE)

\* a session that leaves the terminal as it is
FlagsAtExit_Keep(t) == t.flags

\* finally: if _flags_set: term_flags_reset(_flags_old)
FlagsAtExit(t) == IF t.flags_set THEN "old" ELSE t.flags

\* the session ends: the finally clause of the keyboard loop
SessionExit(t, cause) ==
    [t EXCEPT !.session = "exited", !.cause = cause, !.flags = FlagsAtExit(t)]

\* a reader thread that ends without touching the terminal
FlagsAtReaderEnd_Keep(t) == t.flags

\* the reader thread ends on an exception: read() (on the failure that
\* uses its budget up) and _console_read_thread_fn restore the flags they
\* were given, the session's _flags_old
FlagsAtReaderEnd(t) == IF t.session = "off" THEN t.flags ELSE "old"

\* ---------------------------------------------------- poll context keys
\* the threads of the testcase
Threads == {1, 2}
\* a target as _poll_context sees it: the name of the role it has in the
\* testcase, its id and the default console of its console extension
Target(want_name, id, console_default) ==
    [want_name |-> want_name, id |-> id, console_default |-> console_default]

\* the targets of the testcase; the console of Target0 is the one followed
Target0 == Target("target", "t0", Console)
Target1 == Target("target1", "t1", Console)
Targets == {Target0, Target1}

\* a key that leaves the target's id out
_poll_context_NoId(target, console) ==
    "console-" \o target.want_name \o "."
        \o (IF console # "" THEN console ELSE target.console_default)

\* "console-" + target.want_name + "." + target.id + "."
\*     + (console if console else target.console.default)
\* (no console given, None or "", stands for the default console)
_poll_context(target, console) ==
    "console-" \o target.want_name \o "." \o target.id \o "."
        \o (IF console # "" THEN console ELSE target.console_default)

\* testcase.report_file_prefix
report_file_prefix == "report-"

\* extension.capture_filename(console) of a target (the relative path of a
\* file in the working directory is its name)
capture_filename(target, console) ==
    report_file_prefix \o _poll_context(target, console) \o ".txt"

Key0 == _poll_context(Target0, Console)
Key1 == _poll_context(Target1, Console)
Keys == {_poll_context(t, Console) : t \in Targets}

\* names without a "." in them, and names made of two of them and a "."
PlainNames == {"a", "b"}
DottedNames == {n1 \o "." \o n2 : n1, n2 \in PlainNames}
\* the role names and the target ids the requests are made with
WantNames == {"a", "a.b"}
TargetIds == {"a", "b.a"}
\* the consoles of a target, and the console argument ("": none given)
ConsoleNames == {"c0", "c1"}
ConsoleArgs == {""} \cup ConsoleNames

\* no request made yet
NoRequest == [made |-> FALSE]

\* a request for the key and the capture file name of a console of a target
KeyRequest(target, console) ==
    [made |-> TRUE, want_name |-> target.want_name, id |-> target.id,
     console |-> console,
     console_name |-> IF console # "" THEN console ELSE target.console_default,
     key |-> _poll_context(target, console),
     path |-> capture_filename(target, console)]

\* a poll state lock shared by every key
PollStateLock_Global(key) == Key0

\* poll_state = testcase._poll_state[context]; with poll_state.lock: the
\* lock a call on a key takes is the one of that key's poll state
PollStateLock(key) == key

\* a `with poll_state.lock` nested in the `with testcase.lock`
LocksAfterLookup_Nested(l, t) == l

\* leaving the `with testcase.lock` block
LocksAfterLookup(l, t) == [l EXCEPT !.testcase = 0]

\* a poll state's buffers before anything is stored
EmptyBuffers ==
    [of |-> FALSE, of_buffered |-> <<>>, read_offset |-> None, generation |-> None,
     search_offset |-> [c \in DetectContexts |-> None],
     search_offset_prev |-> [c \in DetectContexts |-> None]]

\* the buffers and the capture file of the poll state of a key (the other
\* key is never polled: it has no capture file)
PollStateBuffers(key) == IF key = Key0 THEN buffers_poll ELSE other_buffers
PollStateFile(key) == IF key = Key0 THEN capture_file ELSE <<>>

\* a thread in no call
Idle == [at |-> "idle", op |-> "none"]

\* ----------------------------------------------------------------- state
Init ==
    /\ srv_gen = 1
    /\ srv_data = <<>>
    /\ buffers_poll = EmptyBuffers
    /\ srv_enabled = TRUE
    /\ pc = [t \in Threads |-> Idle]
    /\ locks = [testcase |-> 0, poll_state |-> [k \in Keys |-> 0]]
    /\ testcase_buffers = EmptyBuffers
    /\ other_buffers = EmptyBuffers
    /\ inits = 0
    /\ keylog = [console_default |-> "c0", prev |-> NoRequest, cur |-> NoRequest]
    /\ capture_file = <<>>
    /\ last = [op |-> "none"]
    /\ hist = [init_offset |-> None, init_gen |-> None, restart_len |-> None,
               synced |-> 0]
    /\ reader = [started |-> FALSE]
    /\ tty = NoSession

\* the target prints one more byte on its console
TargetOutputUpTo(max_stream) ==
    /\ Len(srv_data) < max_stream
    /\ srv_data' = Append(srv_data, ConsoleByte(srv_gen, Len(srv_data) + 1))
    /\ last' = [op |-> "none"]
    /\ UNCHANGED <<srv_gen, buffers_poll, capture_file, hist, reader_vars, thread_vars>>

TargetOutput == TargetOutputUpTo(MaxStream)

\* the target power cycles: a new generation of the stream starts
PowerCycle ==
    /\ srv_gen < MaxGen
    /\ srv_gen' = srv_gen + 1
    /\ srv_data' = <<>>
    /\ last' = [op |-> "none"]
    /\ UNCHANGED <<buffers_poll, capture_file, hist, reader_vars, thread_vars>>

\* the server starts to count the generations of the stream again: the
\* stream starts over with a lower generation
GenerationBack ==
    /\ srv_gen > 1
    /\ \E generation \in 1..(srv_gen - 1) : srv_gen' = generation
    /\ srv_data' = <<>>
    /\ last' = [op |-> "none"]
    /\ UNCHANGED <<buffers_poll, capture_file, hist, reader_vars, thread_vars>>

\* expect_text_on_console_c.poll.  The transport's part is an input: the
\* number of consecutive attempts that time out, the error (if any) of the
\* attempt after those, and the error (if any) of the read issued after a
\* restart.  An input the call never gets to use is not enumerated.
PollWith(Timeouts, Errors, max_capture) ==
    \E lookback_max \in IF buffers_poll.of THEN {1} ELSE 1..MaxLookback,
       timeouts \in Timeouts :
    \E err \in IF ReadLoop(-1, timeouts).raised THEN {"none"}
                ELSE {"none"} \cup (Errors \ {"ReadTimeout"}) :
    \E reread_err \in IF err = "none" /\ buffers_poll.generation # None
                          /\ Restarted(buffers_poll.generation, srv_gen)
                       THEN {"none"} \cup Errors
                       ELSE {"none"} :
        LET init == ~buffers_poll.of
            bp0 == IF init THEN _poll_context_init(buffers_poll, lookback_max)
                   ELSE buffers_poll
            file0 == IF init THEN <<>> ELSE capture_file
        IN  \E p \in {_poll(bp0, file0, timeouts, err, reread_err)} :
            /\ err \in BodyErrors => BodyBreaks(ReadOffsetOf(bp0))
            /\ reread_err \in BodyErrors => BodyBreaks(RestartOffset)
            /\ Len(p.file) <= max_capture
            /\ buffers_poll' = p.bp
            /\ capture_file' = p.file
            /\ last' = [op |-> "poll", timeouts |-> timeouts, err |-> err,
                        reread_err |-> reread_err, raised |-> p.raised,
                        attempts |-> p.attempts, reads |-> p.reads,
                        restarted |-> p.restarted]
            /\ hist' = HistAfterPoll(
                          [(IF init THEN HistAtInit(hist, bp0.read_offset, srv_gen)
                            ELSE hist)
                           EXCEPT !.restart_len = IF p.restarted THEN Len(file0)
                                                  ELSE @],
                          p)
            /\ UNCHANGED <<srv_gen, srv_data, reader_vars, thread_vars>>

Poll == PollWith(0..MaxTimeouts, {"ReadTimeout"} \cup HardErrors, MaxCapture)

\* polls the transport answers at once, into a capture file that has room
\* for the longest read
PollLong == PollWith({0}, {}, MaxCaptureLong)

\* a poll on which the transport answers at once or never, and on which a
\* response can break off while its body is streamed
PollBroken == PollWith({0, MaxTimeouts}, {"HTTPError"} \cup BodyErrors, MaxCaptureFlush)

\* expect_text_on_console_c.detect
DetectWith(Args, Pats, Reps) ==
    \E detect_context \in Args, pattern \in Pats, report \in Reps :
        \E d \in {detect(buffers_poll, capture_file, detect_context, pattern, report)} :
            /\ buffers_poll' = d.bp
            /\ last' = [op |-> "detect", detect_context |-> detect_context,
                        report |-> report, match |-> d.match, ret |-> d.ret,
                        again |-> /\ last.op = "detect"
                                  /\ last.detect_context = detect_context
                                  /\ last.ret.matched]
            /\ UNCHANGED <<srv_gen, srv_data, capture_file, hist, reader_vars, thread_vars>>

Detect == DetectWith(DetectContextArgs, Patterns, Reports)

\* expect_text_on_console_c.on_timeout
OnTimeoutWith(Args) ==
    \E detect_context \in Args, raise_on_timeout \in RaiseOnTimeoutArgs :
        /\ last' = [op |-> "on_timeout", detect_context |-> detect_context,
                    raise_on_timeout |-> raise_on_timeout,
                    raised |-> RaiseOnTimeout(raise_on_timeout),
                    ret |-> on_timeout(buffers_poll, detect_context)]
        /\ UNCHANGED <<srv_gen, srv_data, buffers_poll, capture_file, hist,
                       reader_vars, thread_vars>>

OnTimeout == OnTimeoutWith(DetectContextArgs)

\* extension.send_expect_sync
SendExpectSyncWith(Args) ==
    \E detect_context \in Args :
        /\ buffers_poll' = send_expect_sync(buffers_poll, capture_file, detect_context)
        /\ last' = [op |-> "send_expect_sync", detect_context |-> detect_context]
        /\ UNCHANGED <<srv_gen, srv_data, capture_file, hist, reader_vars, thread_vars>>

SendExpectSync == SendExpectSyncWith(DetectContextArgs)

\* ------------------------------------------------------ continuous reader
\* console-read --follow starts: a reader from offset 0 with the
\* --max-backoff-wait given
ReaderStart ==
    /\ ~reader.started /\ tty.session = "off"
    /\ \E backoff_wait_max \in 1..MaxBackoff :
          reader' = ReaderInit(0, backoff_wait_max)
    /\ last' = [op |-> "none"]
    /\ UNCHANGED <<srv_gen, srv_data, buffers_poll, capture_file, hist, tty,
                   thread_vars>>

\* one iteration of the loop of _console_read_thread_fn:
\* console_reader.read(), on which the transport answers or fails
ReaderRead ==
    /\ reader.started /\ reader.alive /\ tty.session # "exited"
    /\ \E outcome \in {"ok", "ConnectionError"} :
        \E rd \in {IF outcome = "ok" THEN ReaderReadOk(reader)
                    ELSE ReaderReadConnectionError(reader)} :
          /\ Len(rd.sink) <= MaxSink
          /\ reader' = rd
          /\ tty' = IF rd.alive THEN tty
                    ELSE [tty EXCEPT !.flags = FlagsAtReaderEnd(tty)]
          /\ last' = [op |-> "read", outcome |-> outcome,
                      data_len |-> Len(rd.sink) - Len(reader.sink),
                      recovered |-> outcome = "ok"
                                    /\ reader.server_connection_errors > 0,
                      raised |-> IF rd.alive THEN "none" ELSE outcome]
    /\ UNCHANGED <<srv_gen, srv_data, buffers_poll, capture_file, hist, thread_vars>>

\* console-write -i starts: the terminal goes raw (when it is one) and the
\* reader thread is started with the flags the terminal had
SessionStart ==
    /\ ~reader.started /\ tty.session = "off"
    /\ \E isatty \in BOOLEAN, backoff_wait_max \in {1, MaxBackoff} :
          /\ tty' = SessionInit(isatty)
          /\ reader' = ReaderInit(0, backoff_wait_max)
    /\ last' = [op |-> "none"]
    /\ UNCHANGED <<srv_gen, srv_data, buffers_poll, capture_file, hist, thread_vars>>

\* what the keyboard loop can get from os.read and target.console.write:
\* a character, the escape character, an exception
KeyboardInputs == {"chars", "error"}

\* the characters of the keyboard: one that is no escape, and the escape
KeyChars == {"x", Escape}

RECURSIVE KeySeqs(_)
KeySeqs(n) ==
    IF n = 0 THEN {<<>>}
    ELSE LET shorter == KeySeqs(n - 1)
         IN  shorter \cup {Append(k, c) : k \in {q \in shorter : Len(q) = n - 1},
                                          c \in KeyChars}

\* one iteration of the keyboard loop, which runs while the reader thread
\* is alive: os.read gives some characters (none when there is no input),
\* two escapes in a row or an exception end the session
Keyboard ==
    /\ tty.session = "loop" /\ reader.alive
    /\ \E input \in KeyboardInputs, chars \in KeySeqs(MaxKeys) :
          /\ input = "error" => chars = <<>>
          /\ \E k \in {KeyLoop(chars, PendingEscape(tty.one_escape))} :
                tty' = IF input = "error" THEN SessionExit(tty, "exception")
                       ELSE IF k.done THEN SessionExit(tty, "escape")
                       ELSE [tty EXCEPT !.one_escape = k.one_escape,
                                        !.typed = IF chars = <<>> THEN @
                                                  ELSE chars[Len(chars)]]
          /\ last' = [op |-> "keyboard", input |-> input, chars |-> chars]
    /\ UNCHANGED <<srv_gen, srv_data, buffers_poll, capture_file, hist, reader,
                   thread_vars>>

\* the keyboard loop finds the reader thread dead and ends
SessionReaderDead ==
    /\ tty.session = "loop" /\ ~reader.alive
    /\ tty' = SessionExit(tty, "reader")
    /\ last' = [op |-> "none"]
    /\ UNCHANGED <<srv_gen, srv_data, buffers_poll, capture_file, hist, reader,
                   thread_vars>>

\* console_reader.read() raises something that is no ConnectionError: the
\* reader thread restores the flags and ends
ReaderThreadError ==
    /\ tty.session = "loop" /\ reader.alive
    /\ reader' = [reader EXCEPT !.alive = FALSE]
    /\ tty' = [tty EXCEPT !.flags = FlagsAtReaderEnd(tty)]
    /\ last' = [op |-> "none"]
    /\ UNCHANGED <<srv_gen, srv_data, buffers_poll, capture_file, hist, thread_vars>>

\* ---------------------------------------------------------------- threads
\* The calls as threads make them, a step per blocking point.  The lock of
\* the poll state is taken by the caller of poll, detect and on_timeout and
\* by send_expect_sync itself; testcase.lock is taken by send_expect_sync,
\* by _poll to count a read timeout and by the caller of
\* _poll_context_init_maybe.  The count of read timeouts itself goes to the
\* report and is not followed.
ThreadOps == {"poll", "detect", "on_timeout", "send_expect_sync", "init_maybe",
              "text_capture_file"}
\* the calls that look the poll state up under testcase.lock and then take
\* the poll state's lock themselves
LookupOps == {"send_expect_sync", "text_capture_file"}
\* what the threads expect: the first byte of the console
ThreadPatterns == {<<ConsoleByte(1, 1)>>}

\* the console is disabled, enabled
ConsoleDisable ==
    /\ srv_enabled
    /\ srv_enabled' = FALSE
    /\ last' = [op |-> "none"]
    /\ UNCHANGED <<srv_gen, srv_data, buffers_poll, capture_file, hist, reader_vars,
                   pc, locks, testcase_buffers, other_buffers, inits,
                   keylog>>

ConsoleEnable ==
    /\ ~srv_enabled
    /\ srv_enabled' = TRUE
    /\ last' = [op |-> "none"]
    /\ UNCHANGED <<srv_gen, srv_data, buffers_poll, capture_file, hist, reader_vars,
                   pc, locks, testcase_buffers, other_buffers, inits,
                   keylog>>

\* a thread starts a call on a key (poll and _poll_context_init_maybe on the
\* key of the console followed)
Call(t, Lookbacks) ==
    /\ pc[t].at = "idle"
    /\ \E op \in ThreadOps, key \in Keys, lookback_max \in Lookbacks,
          detect_context \in {""} :
          /\ op \in {"poll", "init_maybe"} => key = Key0
          /\ op \notin {"poll", "init_maybe"} => lookback_max = 1
          /\ pc' = [pc EXCEPT ![t] =
                      [op |-> op, key |-> key,
                       at |-> IF op \in LookupOps \cup {"init_maybe"}
                              THEN "tc_lock" ELSE "lock",
                       lookback_max |-> lookback_max,
                       detect_context |-> detect_context,
                       timeouts |-> 0]]
    /\ last' = [op |-> "none"]
    /\ UNCHANGED <<srv_gen, srv_data, buffers_poll, capture_file, hist, reader_vars,
                   srv_enabled, locks, testcase_buffers, other_buffers, inits,
                   keylog>>

\* with testcase.lock, in send_expect_sync and in _poll: the thread gets the
\* lock once it is free
AcquireTestcase(t) ==
    /\ \/ pc[t].op \in LookupOps /\ pc[t].at = "tc_lock"
       \/ pc[t].op = "poll" /\ pc[t].at = "warn"
    /\ locks.testcase = 0
    /\ locks' = [locks EXCEPT !.testcase = t]
    /\ pc' = [pc EXCEPT ![t].at = IF pc[t].at = "warn" THEN "count" ELSE "lookup"]
    /\ last' = [op |-> "none"]
    /\ UNCHANGED <<srv_gen, srv_data, buffers_poll, capture_file, hist, reader_vars,
                   srv_enabled, testcase_buffers, other_buffers, inits,
                   keylog>>

\* the caller of _poll_context_init_maybe takes testcase.lock
CallerAcquireTestcase(t) ==
    /\ pc[t].op = "init_maybe" /\ pc[t].at = "tc_lock"
    /\ locks.testcase = 0
    /\ locks' = [locks EXCEPT !.testcase = t]
    /\ pc' = [pc EXCEPT ![t].at = "init"]
    /\ last' = [op |-> "none"]
    /\ UNCHANGED <<srv_gen, srv_data, buffers_poll, capture_file, hist, reader_vars,
                   srv_enabled, testcase_buffers, other_buffers, inits,
                   keylog>>

\* with poll_state.lock, in send_expect_sync: the thread gets the lock once
\* it is free
AcquirePollState(t) ==
    /\ pc[t].op \in LookupOps /\ pc[t].at = "lock"
    /\ locks.poll_state[PollStateLock(pc[t].key)] = 0
    /\ locks' = [locks EXCEPT !.poll_state[PollStateLock(pc[t].key)] = t]
    /\ pc' = [pc EXCEPT ![t].at = "run"]
    /\ last' = [op |-> "none"]
    /\ UNCHANGED <<srv_gen, srv_data, buffers_poll, capture_file, hist, reader_vars,
                   srv_enabled, testcase_buffers, other_buffers, inits,
                   keylog>>

\* the caller of poll, detect and on_timeout takes the lock of the poll
\* state of the key
CallerAcquirePollState(t) ==
    /\ pc[t].op \in {"poll", "detect", "on_timeout"} /\ pc[t].at = "lock"
    /\ locks.poll_state[PollStateLock(pc[t].key)] = 0
    /\ locks' = [locks EXCEPT !.poll_state[PollStateLock(pc[t].key)] = t]
    /\ pc' = [pc EXCEPT ![t].at = IF pc[t].op = "poll" THEN "init" ELSE "run"]
    /\ last' = [op |-> "none"]
    /\ UNCHANGED <<srv_gen, srv_data, buffers_poll, capture_file, hist, reader_vars,
                   srv_enabled, testcase_buffers, other_buffers, inits,
                   keylog>>

\* the poll state's lock is released when the call returns
Released(t) ==
    [locks EXCEPT !.poll_state[PollStateLock(pc[t].key)] = 0]

\* send_expect_sync: the poll state is looked up (and made) under
\* testcase.lock, which is left before the poll state's lock is taken
Lookup(t) ==
    /\ pc[t].op \in LookupOps /\ pc[t].at = "lookup"
    /\ locks' = LocksAfterLookup(locks, t)
    /\ pc' = [pc EXCEPT ![t].at = "lock"]
    /\ last' = [op |-> "none"]
    /\ UNCHANGED <<srv_gen, srv_data, buffers_poll, capture_file, hist, reader_vars,
                   srv_enabled, testcase_buffers, other_buffers, inits,
                   keylog>>

\* _poll_context_init_maybe, called with testcase.lock held: it initializes
\* testcase.buffers[context] unless that has an 'of'
InitMaybe(t) ==
    /\ pc[t].op = "init_maybe" /\ pc[t].at = "init"
    /\ LET init == ~testcase_buffers.of
       IN  /\ testcase_buffers' =
                 IF init THEN _poll_context_init(testcase_buffers, pc[t].lookback_max)
                 ELSE testcase_buffers
           /\ inits' = IF init THEN inits + 1 ELSE inits
    /\ locks' = [locks EXCEPT !.testcase = 0]
    /\ pc' = [pc EXCEPT ![t] = Idle]
    /\ last' = [op |-> "none"]
    /\ UNCHANGED <<srv_gen, srv_data, buffers_poll, capture_file, hist, reader_vars,
                   srv_enabled, other_buffers,
                   keylog>>

\* poll, first part: the capture is initialized unless buffers_poll has an 'of'
PollInit(t) ==
    /\ pc[t].op = "poll" /\ pc[t].at = "init"
    /\ LET init == ~buffers_poll.of
       IN  /\ buffers_poll' =
                 IF init THEN _poll_context_init(buffers_poll, pc[t].lookback_max)
                 ELSE buffers_poll
           /\ capture_file' = IF init THEN <<>> ELSE capture_file
           /\ inits' = IF init THEN inits + 1 ELSE inits
           /\ hist' = IF init
                      THEN HistAtInit(hist, buffers_poll'.read_offset, srv_gen)
                      ELSE hist
    /\ pc' = [pc EXCEPT ![t].at = "read"]
    /\ last' = [op |-> "none"]
    /\ UNCHANGED <<srv_gen, srv_data, reader_vars, srv_enabled, locks,
                   testcase_buffers, other_buffers,
                   keylog>>

\* what _poll leaves when it returns, and the caller's release of the lock
PollReturn(t, timeouts) ==
    \E p \in {_poll(buffers_poll, capture_file, timeouts, "none", "none")} :
        /\ buffers_poll' = p.bp
        /\ capture_file' = p.file
        /\ hist' = HistAfterPoll(
                      [hist EXCEPT !.restart_len = IF p.restarted
                                                   THEN Len(capture_file) ELSE @],
                      p)
        /\ locks' = Released(t)
        /\ pc' = [pc EXCEPT ![t] = Idle]
        /\ last' = [op |-> "none"]
        /\ UNCHANGED <<srv_gen, srv_data, reader_vars, srv_enabled,
                       testcase_buffers, other_buffers, inits,
                   keylog>>

\* _poll: the transport answers the first attempt, or times out on it and
\* the thread goes for testcase.lock to count the timeout
PollRead(t) ==
    /\ pc[t].op = "poll" /\ pc[t].at = "read"
    /\ \/ PollReturn(t, 0)
       \/ /\ pc' = [pc EXCEPT ![t].at = "warn", ![t].timeouts = 1]
          /\ last' = [op |-> "none"]
          /\ UNCHANGED <<srv_gen, srv_data, buffers_poll, capture_file, hist,
                         reader_vars, srv_enabled, locks, testcase_buffers,
                         other_buffers, inits,
                   keylog>>

\* _poll: the timeout is counted and testcase.lock is left
PollCount(t) ==
    /\ pc[t].op = "poll" /\ pc[t].at = "count"
    /\ locks' = [locks EXCEPT !.testcase = 0]
    /\ pc' = [pc EXCEPT ![t].at = "retry"]
    /\ last' = [op |-> "none"]
    /\ UNCHANGED <<srv_gen, srv_data, buffers_poll, capture_file, hist, reader_vars,
                   srv_enabled, testcase_buffers, other_buffers, inits,
                   keylog>>

\* _poll: the transport answers the next attempt
PollRetry(t) ==
    /\ pc[t].op = "poll" /\ pc[t].at = "retry"
    /\ PollReturn(t, pc[t].timeouts)

\* detect under the poll state's lock
DetectRun(t) ==
    /\ pc[t].op = "detect" /\ pc[t].at = "run"
    /\ \E pattern \in ThreadPatterns :
       \E d \in {detect(PollStateBuffers(pc[t].key), PollStateFile(pc[t].key),
                        pc[t].detect_context, pattern, None)} :
          IF pc[t].key = Key0
          THEN buffers_poll' = d.bp /\ UNCHANGED other_buffers
          ELSE other_buffers' = d.bp /\ UNCHANGED buffers_poll
    /\ locks' = Released(t)
    /\ pc' = [pc EXCEPT ![t] = Idle]
    /\ last' = [op |-> "none"]
    /\ UNCHANGED <<srv_gen, srv_data, capture_file, hist, reader_vars,
                   srv_enabled, testcase_buffers, inits,
                   keylog>>

\* on_timeout under the poll state's lock: it raises and stores nothing
OnTimeoutRun(t) ==
    /\ pc[t].op = "on_timeout" /\ pc[t].at = "run"
    /\ locks' = Released(t)
    /\ pc' = [pc EXCEPT ![t] = Idle]
    /\ last' = [op |-> "none"]
    /\ UNCHANGED <<srv_gen, srv_data, buffers_poll, capture_file, hist, reader_vars,
                   srv_enabled, testcase_buffers, other_buffers, inits,
                   keylog>>

\* send_expect_sync under the poll state's lock
SendExpectSyncRun(t) ==
    /\ pc[t].op = "send_expect_sync" /\ pc[t].at = "run"
    /\ \E bp \in {send_expect_sync(PollStateBuffers(pc[t].key),
                                   PollStateFile(pc[t].key),
                                   pc[t].detect_context)} :
          IF pc[t].key = Key0
          THEN buffers_poll' = bp /\ UNCHANGED other_buffers
          ELSE other_buffers' = bp /\ UNCHANGED buffers_poll
    /\ locks' = Released(t)
    /\ pc' = [pc EXCEPT ![t] = Idle]
    /\ last' = [op |-> "none"]
    /\ UNCHANGED <<srv_gen, srv_data, capture_file, hist, reader_vars,
                   srv_enabled, testcase_buffers, inits,
                   keylog>>

\* text_capture_file under the poll state's lock: it returns the 'of' of
\* the buffers and stores nothing
TextCaptureFileRun(t) ==
    /\ pc[t].op = "text_capture_file" /\ pc[t].at = "run"
    /\ locks' = Released(t)
    /\ pc' = [pc EXCEPT ![t] = Idle]
    /\ last' = [op |-> "none"]
    /\ UNCHANGED <<srv_gen, srv_data, buffers_poll, capture_file, hist, reader_vars,
                   srv_enabled, testcase_buffers, other_buffers, inits,
                   keylog>>

\* a key and a capture file name are asked for, with the default console
\* as it is now
KeyCall ==
    /\ \E want_name \in WantNames, id \in TargetIds, console \in ConsoleArgs :
          keylog' = [keylog EXCEPT
                       !.prev = keylog.cur,
                       !.cur = KeyRequest(Target(want_name, id, keylog.console_default),
                                          console)]
    /\ last' = [op |-> "none"]
    /\ UNCHANGED <<srv_gen, srv_data, buffers_poll, capture_file, hist, reader_vars,
                   srv_enabled, pc, locks, testcase_buffers, other_buffers, inits>>

\* target.console.default = new_console
DefaultSet ==
    /\ \E new_console \in ConsoleNames \ {keylog.console_default} :
          keylog' = [keylog EXCEPT !.console_default = new_console]
    /\ last' = [op |-> "none"]
    /\ UNCHANGED <<srv_gen, srv_data, buffers_poll, capture_file, hist, reader_vars,
                   srv_enabled, pc, locks, testcase_buffers, other_buffers, inits>>

\* a step of a thread inside a call
ThreadStep(t) ==
    \/ AcquireTestcase(t)
    \/ CallerAcquireTestcase(t)
    \/ AcquirePollState(t)
    \/ CallerAcquirePollState(t)
    \/ Lookup(t)
    \/ InitMaybe(t)
    \/ PollInit(t)
    \/ PollRead(t)
    \/ PollCount(t)
    \/ PollRetry(t)
    \/ DetectRun(t)
    \/ OnTimeoutRun(t)
    \/ SendExpectSyncRun(t)
    \/ TextCaptureFileRun(t)

Next ==
    \/ TargetOutput
    \/ PowerCycle
    \/ GenerationBack
    \/ Poll
    \/ PollBroken
    \/ PollLong
    \/ Detect
    \/ OnTimeout
    \/ SendExpectSync
    \/ ReaderStart
    \/ ReaderRead
    \/ SessionStart
    \/ Keyboard
    \/ SessionReaderDead
    \/ ReaderThreadError
    \/ ConsoleDisable
    \/ ConsoleEnable
    \/ \E t \in Threads : Call(t, 1..MaxLookback) \/ ThreadStep(t)
    \/ KeyCall
    \/ DefaultSet

Spec == Init /\ [][Next]_vars

\* The specifications below restrict Spec to some of the calls and of their
\* inputs, so that TLC can visit every state: each of their behaviours is a
\* behaviour of Spec.

\* the target and poll, with every failure of the transport
NextPoll ==
    \/ TargetOutput
    \/ PowerCycle
    \/ Poll

SpecPoll == Init /\ [][NextPoll]_vars

\* a poll on which the transport does not fail
PollOk == PollWith({0}, {}, MaxCaptureDetect)

\* the target prints, up to the shorter bound
TargetOutputShort == TargetOutputUpTo(MaxStreamDetect)

\* one generation of the stream, the two detect contexts, every report policy
NextDetect ==
    \/ TargetOutputShort
    \/ PollOk
    \/ Detect
    \/ OnTimeout
    \/ SendExpectSync

SpecDetect == Init /\ [][NextDetect]_vars

\* the calls on the default detect context alone, reporting everything
DetectDefault == DetectWith({""}, Patterns, {None})
OnTimeoutDefault == OnTimeoutWith({""})
SendExpectSyncDefault == SendExpectSyncWith({""})

\* restarts of the stream, and the default detect context
NextRestart ==
    \/ TargetOutputShort
    \/ PowerCycle
    \/ PollOk
    \/ DetectDefault
    \/ OnTimeoutDefault
    \/ SendExpectSyncDefault

SpecRestart == Init /\ [][NextRestart]_vars

\* generations of the stream that go up and down, and polls
NextGeneration ==
    \/ TargetOutputShort
    \/ PowerCycle
    \/ GenerationBack
    \/ PollOk

SpecGeneration == Init /\ [][NextGeneration]_vars

\* polls whose reads are as long as they get
NextLong ==
    \/ TargetOutput
    \/ PowerCycle
    \/ PollLong

SpecLong == Init /\ [][NextLong]_vars

\* restarts of the stream, polls that fail before, in and after a read, and
\* detect on the default detect context
TargetOutputFlush == TargetOutputUpTo(MaxStreamFlush)
DetectFlush == DetectWith({""}, ThreadPatterns, {None})

NextFlush ==
    \/ TargetOutputFlush
    \/ PowerCycle
    \/ PollBroken
    \/ DetectFlush

SpecFlush == Init /\ [][NextFlush]_vars

\* the continuous reader and the target
TargetOutputReader == TargetOutputUpTo(MaxStreamReader)

NextReader ==
    \/ TargetOutputReader
    \/ PowerCycle
    \/ ReaderStart
    \/ ReaderRead

SpecReader == Init /\ [][NextReader]_vars

\* the interactive console: the keyboard loop and its reader thread
NextSession ==
    \/ TargetOutputReader
    \/ SessionStart
    \/ ReaderRead
    \/ Keyboard
    \/ SessionReaderDead
    \/ ReaderThreadError

SpecSession == Init /\ [][NextSession]_vars

\* term_raw_set() puts stdin in O_NONBLOCK, and only a session on a terminal
\* calls it: os.read then raises EAGAIN when there is no input and the
\* keyboard loop goes round every 0.25 s; otherwise os.read blocks until
\* there is input
StdinNonblocking(t) == t.flags_set

\* the session with its scheduling: a keyboard loop whose os.read does not
\* block gets to test console_read_thread.is_alive(); nothing makes the
\* keyboard give input or the transport answer
SpecSessionFair ==
    SpecSession /\ WF_vars(SessionReaderDead /\ StdinNonblocking(tty))

\* the keys and the capture file names, and the default console
NextKey ==
    \/ KeyCall
    \/ DefaultSet

SpecKey == Init /\ [][NextKey]_vars

\* one thread: the calls one after the other, the console disabled at times
TargetOutputInit == TargetOutputUpTo(MaxStreamInit)

NextInit ==
    \/ TargetOutputInit
    \/ ConsoleDisable
    \/ ConsoleEnable
    \/ Call(1, 1..MaxLookback)
    \/ ThreadStep(1)

SpecInit == Init /\ [][NextInit]_vars

\* the threads of the testcase, the calls at the same time
TargetOutputThreads == TargetOutputUpTo(MaxStreamThreads)

NextThreads ==
    \/ TargetOutputThreads
    \/ \E t \in Threads : Call(t, {1}) \/ ThreadStep(t)

SpecThreads == Init /\ [][NextThreads]_vars

\* ----------------------------------------------------------------- claims
\* the detect context the call recorded in l was made on
CtxOf(l) == DetectContext(l.detect_context)

\* C1: round-trip capture.  As long as the remote stream has not changed
\* generation since the capture was initialized, the capture file holds
\* exactly the remote bytes between the initial read_offset and the current
\* read_offset: none skipped, none written twice.
C1_RoundTripCapture ==
    (buffers_poll.of /\ hist.init_gen = srv_gen) =>
        capture_file = SubSeq(srv_data, hist.init_offset + 1, buffers_poll.read_offset)

\* C2: offset monotonicity.  A successful poll on which the transport
\* reports the generation already stored leaves read_offset greater than or
\* equal to what the previous poll left.
C2_OffsetMonotonic ==
    [][ ( /\ last'.op = "poll"
          /\ last'.raised = "none"
          /\ buffers_poll.generation # None
          /\ last'.reads[1].generation = buffers_poll.generation )
        => buffers_poll'.read_offset >= buffers_poll.read_offset ]_vars

\* C2 witness: a successful poll in the generation of the initialization,
\* after an earlier poll had advanced read_offset, that advanced it again
C2_Witness ==
    /\ last.op = "poll" /\ last.raised = "none" /\ ~last.restarted
    /\ hist.init_gen = srv_gen
    /\ last.reads[1].offset > hist.init_offset
    /\ buffers_poll.read_offset > last.reads[1].offset

\* C3: no double match.  When detect returns a match over [a, b) the
\* context's stored search_offset becomes >= b, and a detect made right
\* after it on the same context returns no match that starts before the b of
\* the first (neither where it matched nor where it reports the match).
C3_NoDoubleMatch ==
    [][ (last'.op = "detect" /\ last'.ret.matched) =>
          LET ctx == CtxOf(last')
              s == GetSearchOffset(buffers_poll, ctx)
              a == s + last'.match.start
              b == s + last'.match.end
          IN  /\ buffers_poll'.search_offset[ctx] >= b
              /\ last'.again =>
                   LET b0 == buffers_poll.search_offset_prev[ctx] + last.match.end
                   IN  a >= b0 /\ last'.ret.offset_match_start >= b0 ]_vars

\* C3 witness: a detect that matched a non-empty text right after a detect
\* on the same context that had matched
C3_Witness ==
    /\ last.op = "detect" /\ last.ret.matched /\ last.again
    /\ last.match.end > last.match.start
    /\ buffers_poll.search_offset_prev[CtxOf(last)] > 0

\* C4: context isolation.  A detect (match or not) or an on_timeout on one
\* detect context leaves search_offset and search_offset_prev of every other
\* context as they were.
C4_ContextIsolation ==
    [][ last'.op \in {"detect", "on_timeout"} =>
          \A c \in DetectContexts \ {CtxOf(last')} :
              /\ buffers_poll'.search_offset[c] = buffers_poll.search_offset[c]
              /\ buffers_poll'.search_offset_prev[c] =
                     buffers_poll.search_offset_prev[c] ]_vars

\* C4 witness: a detect matched on one context while the other context had
\* matched before and stands at another offset
C4_Witness ==
    /\ last.op = "detect" /\ last.ret.matched
    /\ \E c \in DetectContexts \ {CtxOf(last)} :
          /\ buffers_poll.search_offset_prev[c] # None
          /\ buffers_poll.search_offset[c] > 0
          /\ buffers_poll.search_offset[c] # buffers_poll.search_offset[CtxOf(last)]

\* C5: no stale match after a restart.  Once a poll has seen the stream
\* restarted, no detect returns a (non-empty) match that starts in the bytes
\* the capture file held before that poll.
C5_NoStaleMatch ==
    ( /\ last.op = "detect" /\ last.ret.matched
      /\ last.match.end > last.match.start
      /\ hist.restart_len # None )
    => buffers_poll.search_offset_prev[CtxOf(last)] + last.match.start
           >= hist.restart_len

C7_RetryWithinBudget ==
    ( /\ last.op = "poll"
      /\ last.timeouts \in 1..3
      /\ last.err = "none" /\ last.reread_err = "none" )
    => /\ last.raised = "none"
       /\ last.attempts = last.timeouts + 1
       /\ buffers_poll.read_offset = last.reads[Len(last.reads)].new_offset
       /\ buffers_poll.generation = last.reads[Len(last.reads)].generation
       /\ buffers_poll.read_offset = Len(srv_data)

\* C7 witness: a poll returned new bytes on its fourth attempt
C7_Witness ==
    /\ last.op = "poll" /\ last.timeouts = 3 /\ last.raised = "none"
    /\ last.attempts = 4
    /\ last.reads[1].total_bytes > 0

\* C8: retry exhaustion.  A poll makes at most 1 + 3 attempts; when the
\* transport times out on all four, the poll reads nothing more and raises
\* the read timeout itself.
C8_RetryExhaustion ==
    last.op = "poll" =>
        /\ last.attempts <= 4
        /\ last.timeouts >= 4 =>
              /\ last.raised = "ReadTimeout"
              /\ last.attempts = 4
              /\ last.reads = <<>>

\* C8 witness: a poll on an initialized capture raised the read timeout
C8_Witness ==
    /\ last.op = "poll" /\ last.raised = "ReadTimeout" /\ last.attempts = 4
    /\ Len(capture_file) > 0

\* C9: absolute match offsets.  For every report policy the record detect
\* returns has offset_match_start = s + ms and offset_match_end = s + me,
\* for a match at [ms, me) of the capture from the pre-call search_offset s.
C9_AbsoluteOffsets ==
    (last.op = "detect" /\ last.ret.matched) =>
        LET s == buffers_poll.search_offset_prev[CtxOf(last)]
        IN  /\ last.ret.offset_match_start = s + last.match.start
            /\ last.ret.offset_match_end = s + last.match.end

\* C10: report window.  With a positive report policy N, pre-call
\* search_offset s and absolute match end E, the output attached covers
\* [max(s, E - N), E) and the stored cursor of the context is E.
C10_ReportWindow ==
    (last.op = "detect" /\ last.ret.matched /\ last.report >= 1) =>
        LET s == buffers_poll.search_offset_prev[CtxOf(last)]
            E == s + last.match.end
        IN  /\ last.ret.output = <<Max2(s, E - last.report), E>>
            /\ buffers_poll.search_offset[CtxOf(last)] = E

\* C15: detect without capture.  A detect on a poll state whose capture has
\* not been initialized, or whose capture file is empty, returns no match
\* (it raises nothing) and leaves the poll state and the capture file as
\* they were, whatever the pattern, the context and the report policy.
C15_DetectNothingToRead ==
    [][ ( /\ last'.op = "detect"
          /\ (~buffers_poll.of \/ capture_file = <<>>) )
        => /\ ~last'.ret.matched
           /\ ~last'.match.found
           /\ buffers_poll' = buffers_poll
           /\ capture_file' = capture_file ]_vars

\* C15 witness: a detect was made on an initialized capture whose file is
\* still empty, on a context send_expect_sync had set the cursor of
C15_Witness ==
    /\ last.op = "detect" /\ ~last.ret.matched
    /\ buffers_poll.of /\ capture_file = <<>>
    /\ \E c \in DetectContexts : buffers_poll.search_offset[c] = 0

\* the text occurs somewhere in the data
Occurs(pattern, data) ==
    \E i \in 0..(Len(data) - Len(pattern)) :
        \A j \in 1..Len(pattern) : data[i + j] = pattern[j]

\* C16: no match, no move.  A detect whose pattern does not occur in the
\* capture from the context's search_offset to the end of the file returns
\* no match and leaves the context's search_offset and search_offset_prev
\* at their values (a context used for the first time stays at 0).
C16_NoMatchNoMove ==
    \A detect_context \in DetectContextArgs, pattern \in Patterns, report \in Reports :
        LET ctx == DetectContext(detect_context)
            s == IF buffers_poll.search_offset[ctx] = None THEN 0
                 ELSE buffers_poll.search_offset[ctx]
            sp == IF buffers_poll.search_offset_prev[ctx] = None THEN 0
                  ELSE buffers_poll.search_offset_prev[ctx]
        IN  ~Occurs(pattern, SubSeq(capture_file, s + 1, Len(capture_file)))
            => \A d \in {detect(buffers_poll, capture_file, detect_context,
                                 pattern, report)} :
                  /\ ~d.ret.matched
                  /\ (IF d.bp.search_offset[ctx] = None THEN 0
                      ELSE d.bp.search_offset[ctx]) = s
                  /\ (IF d.bp.search_offset_prev[ctx] = None THEN 0
                      ELSE d.bp.search_offset_prev[ctx]) = sp

\* C16 witness: a detect found nothing on a context that had matched before,
\* its cursor inside the capture, and the cursor is where it was
C16_Witness ==
    /\ last.op = "detect" /\ ~last.ret.matched /\ ~last.again
    /\ buffers_poll.of
    /\ LET ctx == CtxOf(last)
       IN  /\ buffers_poll.search_offset_prev[ctx] # None
           /\ buffers_poll.search_offset[ctx] > buffers_poll.search_offset_prev[ctx]
           /\ buffers_poll.search_offset[ctx] < Len(capture_file)

\* C17: on_timeout always raises.  On every poll state it raises the
\* expectation's raise_on_timeout (tc.failed_e when none was given) with the
\* context's search_offset and search_offset_prev (0 for one not recorded),
\* and changes neither the poll state nor the capture file.
C17_OnTimeoutRaises ==
    [][ last'.op = "on_timeout" =>
          LET ctx == CtxOf(last')
          IN  /\ last'.raised = (IF last'.raise_on_timeout = "" THEN "failed_e"
                                 ELSE last'.raise_on_timeout)
              /\ last'.ret.offset =
                   (IF buffers_poll.search_offset[ctx] = None THEN 0
                    ELSE buffers_poll.search_offset[ctx])
              /\ last'.ret.offset_prev =
                   (IF buffers_poll.search_offset_prev[ctx] = None THEN 0
                    ELSE buffers_poll.search_offset_prev[ctx])
              /\ buffers_poll' = buffers_poll
              /\ capture_file' = capture_file ]_vars

\* C17 witness: on_timeout was called, with the default failure kind, on a
\* poll state without capture and on a context never used
C17_Witness ==
    /\ last.op = "on_timeout" /\ last.raise_on_timeout = ""
    /\ last.raised = "failed_e"
    /\ ~buffers_poll.of
    /\ buffers_poll.search_offset[CtxOf(last)] = None

\* C18: on_timeout's output.  The output accessor on_timeout attaches yields
\* exactly the captured bytes after the end of the context's latest match,
\* or the capture from its beginning when the context has not matched yet.
C18_TimeoutOutput ==
    last.op = "on_timeout" =>
        LET ctx == CtxOf(last)
            from == IF buffers_poll.search_offset_prev[ctx] = None THEN 0
                    ELSE buffers_poll.search_offset[ctx]
            it == capture_iterator(capture_file, last.ret.output[1],
                                   last.ret.output[2])
        IN  /\ it.offset_from = from
            /\ it.offset_end = Max2(from, Len(capture_file))

\* C19: transport errors block.  Every error other than a read timeout that
\* the transport raises on a read of poll reaches poll's caller as a
\* blocked_e.
C19_ErrorsBlock ==
    ( /\ last.op = "poll"
      /\ (last.err # "none" \/ last.reread_err \notin {"none", "ReadTimeout"}) )
    => last.raised = "blocked_e"

\* C20 as stated: after every read iteration on which the transport
\* answers, the backoff is min(2 * previous, ceiling) if no byte came and
\* the initial value if some did; after any iteration it is at most the
\* ceiling.
C20_Backoff ==
    [][ last'.op = "read" =>
          /\ last'.outcome = "ok" =>
               reader'.backoff_wait =
                   (IF last'.data_len = 0
                    THEN Min2(2 * reader.backoff_wait, reader.backoff_wait_max)
                    ELSE backoff_wait_initial)
          /\ reader'.backoff_wait <= reader.backoff_wait_max ]_vars

\* C20 amended: after a read iteration on which the transport answers and
\* that follows no connection failure, the backoff is min(2 * previous,
\* ceiling) if no byte came and min(initial, ceiling) if some did; an
\* answered iteration that follows connection failures leaves the initial
\* value, whatever it read; after any other iteration the backoff is at most
\* the ceiling.
C20_BackoffAmended ==
    [][ last'.op = "read" =>
          /\ (last'.outcome = "ok" /\ ~last'.recovered) =>
               reader'.backoff_wait =
                   (IF last'.data_len = 0
                    THEN Min2(2 * reader.backoff_wait, reader.backoff_wait_max)
                    ELSE Min2(backoff_wait_initial, reader.backoff_wait_max))
          /\ last'.recovered => reader'.backoff_wait = backoff_wait_initial
          /\ ~last'.recovered =>
               reader'.backoff_wait <= reader.backoff_wait_max ]_vars

\* C20 witness: the reader had backed off to its ceiling, above the initial
\* value, and an answer without bytes that followed a connection failure
\* left the initial value
C20_Witness ==
    /\ last.op = "read" /\ last.recovered /\ last.data_len = 0
    /\ reader.backoff_wait_max > 2 * backoff_wait_initial
    /\ reader.backoff_wait = backoff_wait_initial
    /\ Len(reader.sink) > 0

\* C11: for any interleaving of poll and _poll_context_init_maybe on one
\* poll context key the capture initialization (delete the stale file, open
\* a fresh one, compute the initial read offset) runs exactly once, and
\* later callers reuse the capture.
C11_InitOnce ==
    /\ inits <= 1
    /\ (buffers_poll.of \/ testcase_buffers.of) => inits = 1

\* C12: the step that initializes a poll context leaves as read offset
\* max(0, size - lookback) for the size the transport reports and the
\* look-back of the caller, 0 when the console is disabled (size None); the
\* read offset of an initialized context is never negative.
C12_InitialReadOffset ==
    [][ \A t \in Threads :
          (pc[t].at = "init" /\ pc'[t].at # "init") =>
            /\ (pc[t].op = "poll" /\ ~buffers_poll.of) =>
                  /\ buffers_poll'.of
                  /\ buffers_poll'.read_offset =
                        (IF ~srv_enabled THEN 0
                         ELSE Max2(0, Len(srv_data) - pc[t].lookback_max))
            /\ (pc[t].op = "init_maybe" /\ ~testcase_buffers.of) =>
                  /\ testcase_buffers'.of
                  /\ testcase_buffers'.read_offset =
                        (IF ~srv_enabled THEN 0
                         ELSE Max2(0, Len(srv_data) - pc[t].lookback_max))
            /\ buffers_poll'.of => buffers_poll'.read_offset >= 0
            /\ testcase_buffers'.of => testcase_buffers'.read_offset >= 0 ]_vars

\* a poll has just initialized its context, with a console longer than the
\* look-back, and has not read yet
C12_Witness ==
    /\ pc[1].op = "poll" /\ pc[1].at = "read"
    /\ buffers_poll.of /\ buffers_poll.generation = None
    /\ buffers_poll.read_offset > 0
    /\ buffers_poll.read_offset = Len(srv_data) - pc[1].lookback_max

\* C13: for one poll context key no two of poll, detect, on_timeout,
\* send_expect_sync and the initialization execute at the same time, and
\* each of them works on the state of the key only while it holds the lock
\* of that key.
C13_MutualExclusion ==
    LET Executing(t) ==
            pc[t].at \in {"init", "read", "warn", "count", "retry", "run"}
    IN  /\ \A t \in Threads :
              Executing(t) => locks.poll_state[pc[t].key] = t
        /\ \A t, u \in Threads :
              (t # u /\ Executing(t) /\ Executing(u)) => pc[t].key # pc[u].key

C21_FailureBudget ==
    [][ (last'.op = "read" /\ last'.outcome = "ConnectionError") =>
          /\ reader'.server_connection_errors = reader.server_connection_errors + 1
          /\ ~reader'.alive <=>
                reader'.server_connection_errors > server_connection_errors_max
          /\ reader'.alive =>
                reader'.backoff_wait =
                    Min2(2 * reader.backoff_wait, reader.backoff_wait_max) ]_vars

\* C21 amended: a connection failure increments the counter of consecutive
\* failures; the reader terminates exactly when the counter reaches the
\* maximum, and while the counter is below it the reader doubles its
\* backoff (capped at the ceiling) and goes on; a read the transport
\* answers sets the counter back to 0.
C21_FailureBudgetReached ==
    [][ last'.op = "read" =>
          /\ last'.outcome = "ConnectionError" =>
                /\ reader'.server_connection_errors =
                      reader.server_connection_errors + 1
                /\ ~reader'.alive <=>
                      reader'.server_connection_errors >= server_connection_errors_max
                /\ ~reader'.alive <=> last'.raised = "ConnectionError"
                /\ reader'.alive =>
                      reader'.backoff_wait =
                          Min2(2 * reader.backoff_wait, reader.backoff_wait_max)
          /\ last'.outcome = "ok" =>
                reader'.alive /\ reader'.server_connection_errors = 0 ]_vars

\* the reader has just terminated on the failure that used its budget up
C21_Witness ==
    /\ last.op = "read" /\ last.raised = "ConnectionError"
    /\ ~reader.alive
    /\ reader.server_connection_errors = server_connection_errors_max

\* C22: once the reader has seen the stream restarted it reads on from
\* offset 0 of the new generation: what it has written to its output since
\* then is the new stream from offset 0 up to the reader's offset, every
\* byte once.
C22_ReaderRestart ==
    (reader.started /\ reader.generation_prev = srv_gen) =>
        SubSeq(reader.sink, reader.restart_len + 1, Len(reader.sink))
            = SubSeq(srv_data, 1, reader.offset)

\* C23: in the interactive console, once the terminal was switched to raw
\* mode, the flags it had are back whenever the session is over (two
\* escapes, an exception in the keyboard loop, the reader thread found
\* dead) and whenever the reader thread has ended, be it on the failure
\* that used its budget up.
C23_TerminalRestored ==
    (tty.session # "off" /\ tty.flags_set) =>
        /\ tty.session = "exited" => tty.flags = "old"
        /\ ~reader.alive => tty.flags = "old"

\* the session was left with two escapes, on a terminal that had gone raw,
\* while the reader thread was alive
C23_Witness ==
    /\ tty.session = "exited" /\ tty.cause = "escape"
    /\ tty.flags_set /\ tty.flags = "old"
    /\ reader.alive

C25_CaptureStore ==
    [][ /\ buffers_poll.of =>
              /\ Len(capture_file') >= Len(capture_file)
              /\ SubSeq(capture_file', 1, Len(capture_file)) = capture_file
        /\ (/\ buffers_poll'.of
            /\ \/ buffers_poll'.generation = srv_gen'
               \/ buffers_poll'.generation = None /\ hist'.init_gen = srv_gen')
           => capture_file' =
                 SubSeq(srv_data',
                        (IF hist'.init_gen = srv_gen' THEN hist'.init_offset ELSE 0) + 1,
                        buffers_poll'.read_offset) ]_vars

\* C26: durability before visibility.  When detect returns a match, the
\* capture up to the end of the match (which the context's search_offset
\* then is) was flushed and synced by a poll: detect reports no match over
\* bytes written by a read whose poll did not get to os.fsync.
C26_DurableBeforeVisible ==
    (last.op = "detect" /\ last.ret.matched)
        => buffers_poll.search_offset[CtxOf(last)] <= hist.synced

\* C27: read ordering, as claimed.  The first read of all is issued at the
\* initial read_offset; the first read of a poll that follows a poll is
\* issued at the new offset the last read of that poll returned when both
\* return the same generation; a second read in a poll is the re-read at
\* offset 0 after a generation increase.
C27_ReadOrdering ==
    [][ (last'.op = "poll" /\ last'.reads # <<>>) =>
          LET r1 == last'.reads[1]
          IN  /\ ~buffers_poll.of => r1.offset = hist'.init_offset
              /\ (last.op = "poll" /\ last.reads # <<>>)
                    => LET previous == last.reads[Len(last.reads)]
                       IN  previous.generation = r1.generation
                             => r1.offset = previous.new_offset
              /\ Len(last'.reads) > 1
                    => /\ Len(last'.reads) = 2
                       /\ last'.reads[2].offset = RestartOffset
                       /\ buffers_poll.generation # None
                       /\ buffers_poll.generation < r1.generation ]_vars

\* C27, amended.  The first read of a poll is issued at the read_offset the
\* poll state stores, which a poll sets to the new offset its last read
\* returned when it completes and leaves as it was when it raises; a second
\* read in a poll is the re-read at offset 0 after a generation increase,
\* and there is no third.
C27_ReadAtStoredOffset ==
    [][ last'.op = "poll" =>
          LET stored == IF buffers_poll.of THEN buffers_poll.read_offset
                        ELSE hist'.init_offset
              reads == last'.reads
          IN  /\ reads # <<>> => reads[1].offset = stored
              /\ buffers_poll'.read_offset =
                    IF last'.raised = "none" THEN reads[Len(reads)].new_offset
                    ELSE stored
              /\ Len(reads) > 1
                    => /\ Len(reads) = 2
                       /\ reads[2].offset = RestartOffset
                       /\ buffers_poll.generation # None
                       /\ buffers_poll.generation < reads[1].generation ]_vars

\* C27 witness: a poll that raised after a read which had returned another
\* new offset than the read_offset stored, and stored nothing
C27_Witness ==
    /\ last.op = "poll" /\ last.raised # "none" /\ last.reads # <<>>
    /\ last.reads[1].new_offset # buffers_poll.read_offset
    /\ last.reads[1].offset = buffers_poll.read_offset

\* C28: search cursor monotonicity.  While the stream stays in one
\* generation no call (poll, detect, on_timeout, send_expect_sync) lowers
\* the search_offset stored for any detect context.
C28_SearchOffsetMonotonic ==
    [][ srv_gen' = srv_gen =>
          \A ctx \in DetectContexts :
              GetSearchOffset(buffers_poll', ctx) >= GetSearchOffset(buffers_poll, ctx)
      ]_vars

\* C28 witness: send_expect_sync has moved the search_offset of a context
\* to the end of a capture in which another context had matched earlier
C28_Witness ==
    /\ last.op = "send_expect_sync"
    /\ buffers_poll.search_offset[CtxOf(last)] = Len(capture_file)
    /\ \E ctx \in DetectContexts \ {CtxOf(last)} :
          /\ buffers_poll.search_offset[ctx] # None
          /\ buffers_poll.search_offset[ctx] > 0
          /\ buffers_poll.search_offset[ctx] < Len(capture_file)

\* C29: when poll returns or raises, the handle of the capture file holds
\* no bytes that were written to it and not flushed.
C29_NothingUnflushed ==
    last.op = "poll" => buffers_poll.of_buffered = <<>>

\* C30: bounded read size.  Each read of a poll writes fewer than max_size
\* plus one chunk bytes and never more than the remote offers, and it stops
\* short of what the remote offers only once it has written max_size bytes
\* or more.
C30_BoundedRead ==
    last.op = "poll" =>
        \A i \in DOMAIN last.reads :
            LET r == last.reads[i]
                offered == Len(srv_data) - Min2(r.offset, Len(srv_data))
            IN  /\ r.total_bytes < max_size + chunk_size
                /\ r.total_bytes <= offered
                /\ r.total_bytes < offered => r.total_bytes >= max_size

\* C30 witness: a read that stopped at max_size or more while the remote
\* offered more than it wrote
C30_Witness ==
    /\ last.op = "poll"
    /\ \E i \in DOMAIN last.reads :
          /\ last.reads[i].total_bytes >= max_size
          /\ last.reads[i].total_bytes
                < Len(srv_data) - Min2(last.reads[i].offset, Len(srv_data))

\* C31: send_expect_sync sets the search_offset of the detect context named
\* to the size of the capture file (0 when there is no capture yet) and
\* leaves search_offset_prev and the cursors of every other context as they
\* were; a detect made right after it on that context matches none of the
\* bytes the file holds (at most the empty text, at the end of the file).
C31_SyncToEndOfCapture ==
    [][ /\ last'.op = "send_expect_sync" =>
              /\ buffers_poll'.search_offset[CtxOf(last')] =
                    (IF buffers_poll.of THEN Len(capture_file) ELSE 0)
              /\ buffers_poll'.search_offset_prev = buffers_poll.search_offset_prev
              /\ \A ctx \in DetectContexts \ {CtxOf(last')} :
                    buffers_poll'.search_offset[ctx] = buffers_poll.search_offset[ctx]
        /\ ( /\ last.op = "send_expect_sync" /\ last'.op = "detect"
             /\ CtxOf(last') = CtxOf(last) /\ last'.ret.matched )
              => /\ last'.match.start = last'.match.end
                 /\ buffers_poll.search_offset[CtxOf(last)] + last'.match.start
                       = Len(capture_file) ]_vars

\* C31 witness: a send_expect_sync on a context that never matched, over a
\* capture that holds bytes, while the other context has its cursor inside
\* the file
C31_Witness ==
    /\ last.op = "send_expect_sync"
    /\ buffers_poll.search_offset_prev[CtxOf(last)] = None
    /\ Len(capture_file) > 1
    /\ buffers_poll.search_offset[CtxOf(last)] = Len(capture_file)
    /\ \E ctx \in DetectContexts \ {CtxOf(last)} :
          /\ buffers_poll.search_offset_prev[ctx] # None
          /\ buffers_poll.search_offset[ctx] = 1

\* C32: the continuous reader counts consecutive failures.  A read that
\* returns leaves the count of connection failures at 0 and, when there were
\* failures before it, the backoff at its initial value; a connection
\* failure adds one to the count, so the failure that follows a read that
\* returned is the first again and does not end the reader.
C32_ConsecutiveFailures ==
    [][ last'.op = "read" =>
          /\ last'.outcome = "ok" =>
                /\ reader'.alive
                /\ reader'.server_connection_errors = 0
                /\ reader.server_connection_errors > 0
                      => reader'.backoff_wait = backoff_wait_initial
          /\ last'.outcome = "ConnectionError" =>
                /\ reader'.server_connection_errors
                      = reader.server_connection_errors + 1
                /\ (last.op = "read" /\ last.outcome = "ok")
                      => reader'.server_connection_errors = 1 /\ reader'.alive ]_vars

\* C32 witness: a read that returned data after connection failures and
\* left the count at 0 and the backoff at its initial value
C32_Witness ==
    /\ last.op = "read" /\ last.recovered /\ last.data_len > 0
    /\ reader.server_connection_errors = 0
    /\ reader.backoff_wait = backoff_wait_initial
    /\ reader.backoff_wait_max > backoff_wait_initial

\* the keyboard input has two escapes in a row
HasDoubleEscape(stream) ==
    \E i \in 1..(Len(stream) - 1) : stream[i] = Escape /\ stream[i + 1] = Escape

\* C33: double-escape exit.  A read of the keyboard ends the session with
\* the escape exit exactly when the input, from the character before the
\* read on, has two escapes in a row, be they in one read or in two; when
\* it has not, the session goes on and an escape is pending exactly when
\* the last character typed is an escape.
C33_DoubleEscape ==
    [][ (last'.op = "keyboard" /\ last'.input = "chars") =>
          LET stream == (IF tty.typed = "none" THEN <<>> ELSE <<tty.typed>>)
                            \o last'.chars
          IN  /\ (tty'.session = "exited") = HasDoubleEscape(stream)
              /\ tty'.session = "exited" => tty'.cause = "escape"
              /\ tty'.session # "exited" =>
                    /\ tty'.session = "loop"
                    /\ tty'.one_escape =
                          (stream # <<>> /\ stream[Len(stream)] = Escape) ]_vars

\* C33 witness: the session ended on an escape that came first in its read,
\* the escape before it being the last character of an earlier read
C33_Witness ==
    /\ last.op = "keyboard" /\ last.input = "chars"
    /\ tty.session = "exited" /\ tty.cause = "escape"
    /\ tty.typed = Escape
    /\ last.chars # <<>> /\ last.chars[1] = Escape

\* C34: a poll that raises (read timeouts used up, an error on the first
\* read, an error on the re-read from 0 after a generation increase) leaves
\* the read_offset stored (the initial one when the call has initialized
\* the capture), the generation stored and the cursors of every detect
\* context as they were.
C34_FailedPollKeepsState ==
    [][ (last'.op = "poll" /\ last'.raised # "none") =>
          /\ buffers_poll'.read_offset =
                (IF buffers_poll.of THEN buffers_poll.read_offset
                 ELSE hist'.init_offset)
          /\ buffers_poll'.generation = buffers_poll.generation
          /\ buffers_poll'.search_offset = buffers_poll.search_offset
          /\ buffers_poll'.search_offset_prev = buffers_poll.search_offset_prev
      ]_vars

\* C34 witness: a poll raised on the re-read from 0 after its first read
\* had returned a new generation and another offset, on a poll state in
\* which a detect context has matched
C34_Witness ==
    /\ last.op = "poll" /\ last.raised # "none" /\ last.reads # <<>>
    /\ last.reads[1].generation > buffers_poll.generation
    /\ last.reads[1].new_offset # buffers_poll.read_offset
    /\ \E ctx \in DetectContexts : buffers_poll.search_offset[ctx] > 0

\* the bytes the reads of a poll have written
RECURSIVE TotalBytes(_)
TotalBytes(reads) ==
    IF reads = <<>> THEN 0 ELSE Head(reads).total_bytes + TotalBytes(Tail(reads))

\* C35: read attempts that fail leave nothing in the capture file.  When a
\* poll completes, the file has grown, since the poll before it that
\* completed (since the initialization when there is none), by exactly the
\* bytes the reads of this poll have written, whatever attempts and polls
\* have failed in between; and what it held is still its beginning.
C35_FailedReadsAppendNothing ==
    [][ (last'.op = "poll" /\ last'.raised = "none") =>
          LET before == IF buffers_poll.of THEN hist.synced ELSE 0
          IN  /\ Len(capture_file') = before + TotalBytes(last'.reads)
              /\ buffers_poll.of =>
                    SubSeq(capture_file', 1, Len(capture_file)) = capture_file ]_vars

\* C36: in every state and for every detect context, search_offset_prev <=
\* search_offset <= length of the capture file (a cursor that is not stored
\* counts as 0), whatever polls (on restarted streams too), detects and
\* send_expect_syncs were made.
C36_CursorsInsideCapture ==
    \A ctx \in DetectContexts :
        LET prev == IF buffers_poll.search_offset_prev[ctx] = None THEN 0
                    ELSE buffers_poll.search_offset_prev[ctx]
            cur == IF buffers_poll.search_offset[ctx] = None THEN 0
                   ELSE buffers_poll.search_offset[ctx]
        IN  0 <= prev /\ prev <= cur /\ cur <= Len(capture_file)

\* C36 witness: after a poll that found the stream restarted, a context
\* that has matched twice has its cursors apart and inside the file
C36_Witness ==
    /\ hist.restart_len # None
    /\ \E ctx \in DetectContexts :
          /\ buffers_poll.search_offset_prev[ctx] > 0
          /\ buffers_poll.search_offset[ctx] > buffers_poll.search_offset_prev[ctx]
          /\ Len(capture_file) > buffers_poll.search_offset[ctx]

C38_DeadlockFree ==
    /\ \A t \in Threads :
          (pc[t].at = "lock" /\ pc[t].op \in LookupOps) => locks.testcase # t
    /\ (\E t \in Threads : pc[t].at # "idle")
          => \E t \in Threads : ENABLED ThreadStep(t)

\* C38 witness: a poll that holds the lock of its poll state waits for
\* testcase.lock to count a read timeout, which a text_capture_file on the
\* same key holds for its lookup and will leave before it waits for the
\* poll's lock
C38_Witness ==
    /\ pc[1].op = "poll" /\ pc[1].at = "warn" /\ pc[1].key = Key0
    /\ locks.poll_state[Key0] = 1
    /\ pc[2].op = "text_capture_file" /\ pc[2].at = "lookup" /\ pc[2].key = Key0
    /\ locks.testcase = 2

\* C39: every detect that returns a match stores a search_offset, for its
\* detect context, that is strictly larger than the one stored before,
\* whatever text or regex the expectation was made with.
C39_MatchAdvancesCursor ==
    [][ (last'.op = "detect" /\ last'.ret.matched)
          => GetSearchOffset(buffers_poll', CtxOf(last'))
               > GetSearchOffset(buffers_poll, CtxOf(last'))
      ]_vars

\* C40: liveness of the interactive session.  Once the reader thread has
\* ended while the keyboard loop runs, the loop ends and the terminal has
\* the flags it was found with, with no input from the keyboard needed.
C40_SessionEnds ==
    (tty.session = "loop" /\ ~reader.alive)
        ~> (tty.session = "exited" /\ tty.flags = "old")

====
